---------------------------- MODULE Spec2Model ----------------------------
(***************************************************************************)
(* The application wizard of the admin console:                            *)
(*   - AkApplicationWizardMain, the container that owns the wizard state   *)
(*     and the set of enabled steps and folds WizardUpdateEvents into them *)
(*   - WizardStep, the base class of one step: connection, the render      *)
(*     gate, the button dispatch table and the events a step raises.       *)
(* Source: src/web/src/admin/applications/wizard/ak-application-wizard-main.ts *)
(***************************************************************************)
EXTENDS Integers, Sequences, FiniteSets, TLC

(***************************************************************************)
(* Bounds of the model.                                                    *)
(***************************************************************************)
\* update events delivered to the container in one behaviour
MaxEvents == 3
\* length of an enable / disable list carried by a status instruction
MaxArr == 1
\* buttons that a step's buttons getter returns
MaxButtons == 1

(***************************************************************************)
(* JavaScript values whose dynamic type the code tests (Array.isArray,     *)
(* typeof, ??, !x, ===) are tagged with their type.                        *)
(***************************************************************************)
Undefined == [t |-> "undefined"]
Null == [t |-> "null"]
Str(s) == [t |-> "string", v |-> s]
Arr(a) == [t |-> "array", v |-> a]

\* a ?? d
Nullish(a, d) == IF a.t \in {"undefined", "null"} THEN d ELSE a

\* the members of a list
Range(s) == {s[i] : i \in 1..Len(s)}

\* arr.includes(x)
Includes(arr, x) == \E i \in 1..Len(arr) : arr[i] = x

\* { ...a, ...b }: every key of either, b's value where b has the key
Spread(a, b) ==
    [k \in (DOMAIN a) \cup (DOMAIN b) |-> IF k \in DOMAIN b THEN b[k] ELSE a[k]]

\* new Set(arr), kept as the list of its members in insertion order
RECURSIVE NewSetFrom(_, _)
NewSetFrom(acc, arr) ==
    IF arr = <<>> THEN acc
    ELSE NewSetFrom(IF Includes(acc, Head(arr)) THEN acc ELSE Append(acc, Head(arr)),
                    Tail(arr))

\* variant: an array where the code builds a Set
NewSet_Array(arr) == arr

NewSet(arr) == NewSetFrom(<<>>, arr)

(***************************************************************************)
(* The container: AkApplicationWizardMain                                  *)
(***************************************************************************)
\* variant: a single identifier is dropped instead of wrapped
asArr_DropSingle(v) == IF v.t = "array" THEN v.v ELSE <<>>

\* asArr: an array as it is, anything else as a one-element array
asArr(v) == IF v.t = "array" THEN v.v ELSE <<v.v>>

freshWizardState ==
    [providerModel |-> "",
     currentBinding |-> -1,
     app |-> <<>>,
     provider |-> <<>>,
     errors |-> <<>>,
     bindings |-> <<>>]

VARIABLES
    wizard,     \* AkApplicationWizardMain.wizard
    enabled,    \* AkApplicationWizardMain.enabled: a Set, in insertion order
    ev,         \* content of the update event handled last ({update, status})
    updates,    \* the update fields of all events handled so far, in order
    everEnabled,\* the identifiers that the enable fields handled so far carried
    propagated  \* how many update events went on to listeners above the container

VARIABLES
    name,         \* WizardStep.name: undefined until set or defaulted
    slot,         \* the step element's slot attribute, as getAttribute returns it
    canCancel,    \* WizardStep.canCancel
    overridesMain,\* whether the step's class overrides renderMain()
    overridesButtons, \* whether the step's class overrides renderButtons()
    stepLabels,   \* wizardStepState.stepLabels, from the ambient context
    buttons,      \* what the step's buttons getter returns
    phase,        \* "constructed", "connected", or "failed" (connectedCallback threw)
    currentStep,  \* wizardStepState.currentStep, from the ambient context
    rendered,     \* what the last render() of the step produced
    activated,    \* the rendered control the user activated last
    dispatched,   \* the events that activation dispatched
    thrown        \* the error the last callback or handler raised, "" if none

containerVars == <<wizard, enabled, ev, updates, everEnabled, propagated>>
stepVars == <<name, slot, canCancel, overridesMain, overridesButtons, buttons, phase,
              currentStep, stepLabels, rendered, activated, dispatched, thrown>>
vars == <<wizard, enabled, ev, updates, everEnabled, propagated, name, slot,
          canCancel, overridesMain, overridesButtons, buttons, phase, currentStep,
          stepLabels, rendered, activated, dispatched, thrown>>

\* identifiers of steps that status instructions name
StepIds == {"application", "provider"}

\* partial wizard states carried as ev.content.update
UpdateObjects ==
    { <<>>,
      [app |-> [name |-> "x"]],
      [app |-> [slug |-> "y"]],
      [proxyMode |-> "proxy"],
      [providerModel |-> "saml", app |-> [name |-> "x", slug |-> "z"]] }

IdLists == UNION {[1..n -> StepIds] : n \in 0..MaxArr}

\* status.enable / status.disable: absent, one identifier, or a list
IdArgs == {Undefined} \cup {Str(s) : s \in StepIds} \cup {Arr(a) : a \in IdLists}

StatusObjects == [enable : IdArgs, disable : IdArgs]

\* what a step sends along with a form update: the step to enable next
NextStepStatuses == {[enable |-> Str(s), disable |-> Undefined] : s \in StepIds}

\* ev.content: an update, a status instruction, both or neither
EventContents ==
    [update : {Undefined} \cup UpdateObjects, status : {Undefined}]
    \cup [update : {Undefined}, status : StatusObjects]
    \cup [update : UpdateObjects, status : NextStepStatuses]

NoEvent == [update |-> Undefined, status |-> Undefined, none |-> TRUE]

\* the top-level keys of the wizard state that hold nested objects
ObjectKeys == {"app", "provider", "errors"}

\* a deep merge of b into a: nested objects are merged field by field
DeepMerge(a, b) ==
    [k \in (DOMAIN a) \cup (DOMAIN b) |->
        IF k \notin DOMAIN b THEN a[k]
        ELSE IF k \in DOMAIN a /\ k \in ObjectKeys THEN Spread(a[k], b[k])
        ELSE b[k]]

\* variant: the spreads in the other order, { ...update, ...this.wizard }
mergedWizard_WizardLast(w, update) ==
    IF update # Undefined THEN Spread(update, w) ELSE w

\* variant: the update is assigned where the code merges it
mergedWizard_Assigned(w, update) ==
    IF update # Undefined THEN update ELSE w

\* variant: nested objects merged field by field
mergedWizard_Deep(w, update) ==
    IF update # Undefined THEN DeepMerge(w, update) ELSE w

\* the new value of this.wizard
mergedWizard(w, update) ==
    IF update # Undefined THEN Spread(w, update) ELSE w

\* variant: the enable and disable fields taken for each other
updatedEnabled_Swapped(en, status) ==
    IF status # Undefined
    THEN LET enable == asArr(Nullish(status.disable, Arr(<<>>)))
             disable == asArr(Nullish(status.enable, Arr(<<>>)))
         IN NewSet(SelectSeq(en, LAMBDA k : ~Includes(disable, k)) \o enable)
    ELSE en

\* variant: the disabled identifiers are removed after the enabled ones are added
updatedEnabled_DisableLast(en, status) ==
    IF status # Undefined
    THEN LET enable == asArr(Nullish(status.enable, Arr(<<>>)))
             disable == asArr(Nullish(status.disable, Arr(<<>>)))
         IN NewSet(SelectSeq(en \o enable, LAMBDA k : ~Includes(disable, k)))
    ELSE en

\* the new value of this.enabled
updatedEnabled(en, status) ==
    IF status # Undefined
    THEN LET enable == asArr(Nullish(status.enable, Arr(<<>>)))
             disable == asArr(Nullish(status.disable, Arr(<<>>)))
         IN NewSet(SelectSeq(en, LAMBDA k : ~Includes(disable, k)) \o enable)
    ELSE en

\* the identifiers a status field names: none, the one, or the list's members
IdsOf(arg) ==
    IF arg.t = "array" THEN Range(arg.v)
    ELSE IF arg.t = "string" THEN {arg.v}
    ELSE {}

\* variant: the handler leaves the event to propagate
stopsPropagation_Never == FALSE

\* ev.stopPropagation() is the first statement of handleUpdate
stopsPropagation == TRUE

\* what handleUpdate does to the container; the event then goes on to the
\* listeners above the container unless the handler stopped its propagation
applyUpdate(content) ==
    /\ Len(updates) < MaxEvents
    /\ ev' = content
    /\ wizard' = mergedWizard(wizard, content.update)
    /\ enabled' = updatedEnabled(enabled, content.status)
    /\ updates' = Append(updates, content.update)
    /\ everEnabled' = everEnabled \cup
          (IF content.status # Undefined THEN IdsOf(content.status.enable) ELSE {})
    /\ propagated' = IF stopsPropagation THEN propagated ELSE propagated + 1

handleUpdate(content) ==
    /\ applyUpdate(content)
    /\ UNCHANGED stepVars

ContainerInit ==
    /\ wizard = freshWizardState
    /\ enabled = NewSet(<<"application">>)
    /\ ev = NoEvent
    /\ updates = <<>>
    /\ everEnabled = {}
    /\ propagated = 0

UpdateEvent == \E content \in EventContents : handleUpdate(content)

(***************************************************************************)
(* One step: WizardStep                                                    *)
(***************************************************************************)
ButtonKinds == {"next", "back", "cancel", "close"}

\* button.destination where the key is present
Destinations == {Undefined, Str(""), Str("provider")}

\* WizardButton objects: kind, and optionally disabled and destination
Buttons ==
    { Spread(Spread([kind |-> k], dis), dest) :
        k \in ButtonKinds,
        dis \in {<<>>} \cup {[disabled |-> b] : b \in BOOLEAN},
        dest \in {<<>>} \cup {[destination |-> d] : d \in Destinations} }

\* what a step's buttons getter returns
ButtonLists == UNION {[1..n -> Buttons] : n \in 0..MaxButtons}

isNavigable(b) ==
    /\ "destination" \in DOMAIN b
    /\ b.destination.t = "string"
    /\ Len(b.destination.v) > 0

BUTTON_KIND_TO_CLASS ==
    [next |-> "pf-m-primary", back |-> "pf-m-secondary",
     close |-> "pf-m-link", cancel |-> "pf-m-link"]

BUTTON_KIND_TO_LABEL ==
    [next |-> "Next", back |-> "Back", cancel |-> "Cancel", close |-> "Close"]

\* the outcome of a call: the Error it raised, or what it returned
Throw(msg) == [throw |-> msg]
Return(v) == [return |-> v]
IsThrow(r) == "throw" \in DOMAIN r

RenderMainError == "This must be overridden in client classes"
NavigationError == "Non-navigable button sent to handleNavigationEvent"
SlotError == "Steps must have a unique slot attribute."
ButtonError == "Button type is not close, disabled, or navigable?"

WizardNavigationEvent(destination) ==
    [type |-> "WizardNavigationEvent", destination |-> destination]
WizardCloseEvent == [type |-> "WizardCloseEvent"]

\* the default renderMain() raises; a concrete step's returns its content
renderMain == IF overridesMain THEN Return("content") ELSE Throw(RenderMainError)

\* the default renderButtons() raises; a concrete step's returns its controls
renderButtons == IF overridesButtons THEN Return("controls") ELSE Throw(RenderMainError)

\* variant: the navigability test without its negation
handleNavigationEvent_Inverted(button) ==
    IF isNavigable(button) THEN Throw(NavigationError)
    ELSE Return(<<WizardNavigationEvent(button.destination)>>)

\* the events the default handleNavigationEvent dispatches, or the error it raises
handleNavigationEvent(button) ==
    IF ~isNavigable(button) THEN Throw(NavigationError)
    ELSE Return(<<WizardNavigationEvent(button.destination)>>)

onWizardNavigationEvent(button) == handleNavigationEvent(button)

\* variant: the close handler sends an update event that resets the wizard state
onWizardCloseEvent_Resets ==
    Return(<<[type |-> "WizardUpdateEvent",
              content |-> [update |-> freshWizardState, status |-> Undefined]]>>)

onWizardCloseEvent == Return(<<WizardCloseEvent>>)

getButtonLabel(button) ==
    IF "label" \in DOMAIN button /\ button.label.t \notin {"undefined", "null"}
    THEN button.label.v
    ELSE BUTTON_KIND_TO_LABEL[button.kind]

getButtonClasses(button) == {"pf-c-button", BUTTON_KIND_TO_CLASS[button.kind]}

\* a rendered footer control: the template used, whether the button element is
\* disabled, its click listener and the button object the listener closes over
renderCloseButton(button) ==
    [path |-> "close", disabled |-> FALSE, onClick |-> "onWizardCloseEvent",
     classes |-> getButtonClasses(button), label |-> getButtonLabel(button),
     button |-> button]

renderDisabledButton(button) ==
    [path |-> "disabled", disabled |-> TRUE, onClick |-> "none",
     classes |-> getButtonClasses(button), label |-> getButtonLabel(button),
     button |-> button]

renderNavigableButton(button) ==
    [path |-> "navigable", disabled |-> FALSE, onClick |-> "onWizardNavigationEvent",
     classes |-> getButtonClasses(button), label |-> getButtonLabel(button),
     button |-> button]

\* the patterns of renderButton's match, in the order they are tried
MatchesDisabled(button) == "disabled" \in DOMAIN button /\ button.disabled = TRUE
MatchesCloseKind(button) == button.kind \in {"close", "cancel"}
MatchesDestination(button) ==
    "destination" \in DOMAIN button /\ button.destination.t = "string"

\* variant: the kind is matched before the disabled flag
renderButton_KindFirst(button) ==
    IF MatchesCloseKind(button) THEN renderCloseButton(button)
    ELSE IF MatchesDisabled(button) THEN renderDisabledButton(button)
    ELSE IF MatchesDestination(button) THEN renderNavigableButton(button)
    ELSE Throw(ButtonError)

\* variant: the destination is matched before the kind
renderButton_DestinationFirst(button) ==
    IF MatchesDisabled(button) THEN renderDisabledButton(button)
    ELSE IF MatchesDestination(button) THEN renderNavigableButton(button)
    ELSE IF MatchesCloseKind(button) THEN renderCloseButton(button)
    ELSE Throw(ButtonError)

\* variant: a button that matches no pattern is rendered as a disabled button
renderButton_OtherwiseDisabled(button) ==
    IF MatchesDisabled(button) THEN renderDisabledButton(button)
    ELSE IF MatchesCloseKind(button) THEN renderCloseButton(button)
    ELSE IF MatchesDestination(button) THEN renderNavigableButton(button)
    ELSE renderDisabledButton(button)

renderButton(button) ==
    IF MatchesDisabled(button) THEN renderDisabledButton(button)
    ELSE IF MatchesCloseKind(button) THEN renderCloseButton(button)
    ELSE IF MatchesDestination(button) THEN renderNavigableButton(button)
    ELSE Throw(ButtonError)

\* map(this.buttons, this.renderButton): the rendered controls, or the first error
RECURSIVE renderFooter(_)
renderFooter(bs) ==
    IF bs = <<>> THEN Return(<<>>)
    ELSE LET first == renderButton(Head(bs))
             rest == renderFooter(Tail(bs))
         IN IF IsThrow(first) THEN first
            ELSE IF IsThrow(rest) THEN rest
            ELSE Return(<<first>> \o rest.return)

\* a rendered sidebar entry: the classes of its button element, whether the
\* element is disabled, its click listener, the attributes the template sets
\* besides class and disabled, and its text
\* variant: the disabled attribute without its negation
renderSidebarStep_DisabledWhenEnabled(step) ==
    [classes |-> {"pf-c-wizard__nav-link"} \cup
                 (IF step.active THEN {"pf-m-current"} ELSE {}),
     disabled |-> step.enabled,
     onClick |-> "onSidebarNav",
     attributes |-> [target |-> step.id],
     label |-> step.label]

renderSidebarStep(step) ==
    [classes |-> {"pf-c-wizard__nav-link"} \cup
                 (IF step.active THEN {"pf-m-current"} ELSE {}),
     disabled |-> ~step.enabled,
     onClick |-> "onSidebarNav",
     attributes |-> [target |-> step.id],
     label |-> step.label]

\* map(this.wizardStepState.stepLabels, this.renderSidebarStep)
renderSidebar(labels) == [i \in 1..Len(labels) |-> renderSidebarStep(labels[i])]

\* HTMLButtonElement.value: the value attribute of the element, "" if it has none
buttonValue(element) ==
    IF "value" \in DOMAIN element.attributes THEN element.attributes.value ELSE ""

\* the event onSidebarNav dispatches for a click on the sidebar button element
onSidebarNav(element) == Return(<<WizardNavigationEvent(Str(buttonValue(element)))>>)

Nothing == [out |-> "nothing"]
Unrendered == [out |-> "unrendered"]

\* the full body of a step, or the error that evaluating it raises
renderBody(cancel, bs) ==
    LET sidebar == renderSidebar(stepLabels)
        main == renderMain
        footer == renderFooter(bs)
    IN IF IsThrow(main) THEN [out |-> "error", error |-> main.throw]
       ELSE IF IsThrow(footer) THEN [out |-> "error", error |-> footer.throw]
       ELSE [out |-> "body", cancelIcon |-> cancel, sidebar |-> sidebar,
             footer |-> footer.return]

\* variant: the gate compares the name property
render_ByName(current, nm, slotAttr, cancel, bs) ==
    IF current = nm THEN renderBody(cancel, bs) ELSE Nothing

\* render(): the body when the context's current step is the slot attribute
render(current, nm, slotAttr, cancel, bs) ==
    IF current = slotAttr THEN renderBody(cancel, bs) ELSE Nothing

\* !v for a string, undefined or null
Falsy(v) == v.t \in {"undefined", "null"} \/ (v.t = "string" /\ v.v = "")

NoActivation == [control |-> "none"]

\* variant: the name is taken from the slot attribute without the test of it
connectedCallback_NoSlotTest ==
    /\ phase = "constructed"
    /\ phase' = "connected"
    /\ thrown' = ""
    /\ name' = IF Falsy(name) THEN slot ELSE name
    /\ UNCHANGED <<slot, canCancel, overridesMain, overridesButtons, buttons,
                   currentStep, stepLabels, rendered, activated, dispatched>>
    /\ UNCHANGED containerVars

connectedCallback ==
    /\ phase = "constructed"
    /\ IF Falsy(name)
       THEN IF Falsy(slot)
            THEN /\ phase' = "failed"
                 /\ thrown' = SlotError
                 /\ name' = name
            ELSE /\ phase' = "connected"
                 /\ thrown' = ""
                 /\ name' = slot
       ELSE /\ phase' = "connected"
            /\ thrown' = ""
            /\ name' = name
    /\ UNCHANGED <<slot, canCancel, overridesMain, overridesButtons, buttons,
                   currentStep, stepLabels, rendered, activated, dispatched>>
    /\ UNCHANGED containerVars

\* the context provider publishes current as the current step and the step
\* renders again
Update(current) ==
    /\ phase # "constructed"
    /\ currentStep' = current
    /\ rendered' = render(current, name, slot, canCancel, buttons)
    /\ activated' = NoActivation
    /\ dispatched' = <<>>
    /\ thrown' = ""
    /\ UNCHANGED <<name, slot, canCancel, overridesMain, overridesButtons, buttons,
                   phase, stepLabels>>
    /\ UNCHANGED containerVars

\* what a click on a rendered footer control runs
clickResult(control) ==
    IF control.disabled \/ control.onClick = "none" THEN Return(<<>>)
    ELSE IF control.onClick = "onWizardCloseEvent" THEN onWizardCloseEvent
    ELSE onWizardNavigationEvent(control.button)

\* the user activates the i-th control of the rendered footer
ClickButton(i) ==
    /\ rendered.out = "body"
    /\ i \in 1..Len(rendered.footer)
    /\ activated' = [control |-> "footer", index |-> i]
    /\ LET result == clickResult(rendered.footer[i])
       IN IF IsThrow(result)
          THEN dispatched' = <<>> /\ thrown' = result.throw
          ELSE dispatched' = result.return /\ thrown' = ""
    /\ UNCHANGED <<name, slot, canCancel, overridesMain, overridesButtons, buttons,
                   phase, currentStep, stepLabels, rendered>>
    /\ UNCHANGED containerVars

\* the user activates the cancel icon of the header
ClickHeaderCancel ==
    /\ rendered.out = "body"
    /\ rendered.cancelIcon
    /\ activated' = [control |-> "header"]
    /\ dispatched' = onWizardCloseEvent.return
    /\ thrown' = ""
    /\ UNCHANGED <<name, slot, canCancel, overridesMain, overridesButtons, buttons,
                   phase, currentStep, stepLabels, rendered>>
    /\ UNCHANGED containerVars

\* the name attribute and the slot attribute a step element may be written with
Names == {Undefined, Str("")} \cup {Str(s) : s \in StepIds}
Slots == {Null, Str("")} \cup {Str(s) : s \in StepIds}
CurrentSteps == {Undefined} \cup {Str(s) : s \in StepIds}

\* a step element as constructed, before it is connected
StepConstructed ==
    /\ phase = "constructed"
    /\ currentStep = Undefined
    /\ stepLabels = <<>>
    /\ rendered = Unrendered
    /\ activated = NoActivation
    /\ dispatched = <<>>
    /\ thrown = ""

\* the application step as the container's template declares it
ApplicationStep ==
    /\ name = Undefined
    /\ slot = Str("application")
    /\ canCancel = FALSE
    /\ overridesMain = TRUE
    /\ overridesButtons = TRUE
    /\ buttons = <<[kind |-> "next", destination |-> Str("provider")]>>
    /\ StepConstructed

Init == ContainerInit /\ ApplicationStep

Next == UpdateEvent

Spec == Init /\ [][Next]_vars

\* any step element: its attributes and what its class overrides
StepInit ==
    /\ ContainerInit
    /\ name \in Names
    /\ slot \in Slots
    /\ canCancel \in BOOLEAN
    /\ overridesMain \in BOOLEAN
    /\ overridesButtons \in BOOLEAN
    /\ buttons \in ButtonLists
    /\ StepConstructed

StepNext ==
    \/ connectedCallback
    \/ \E current \in CurrentSteps : Update(current)
    \/ \E i \in 1..MaxButtons : ClickButton(i)
    \/ ClickHeaderCancel

StepSpec == StepInit /\ [][StepNext]_vars

(***************************************************************************)
(* The wizard: the container, its ak-wizard-steps element and one of the   *)
(* four steps of the container's template. ak-wizard-steps keeps the       *)
(* current step, provides the wizardStepState context and handles the      *)
(* navigation events that the steps dispatch.                              *)
(***************************************************************************)
\* variant: the provider step is slotted under the name of the submit step
ContainerSlots_Duplicate == <<"application", "provider-choice", "submit", "submit">>

\* the slot attributes of the steps in the container's template, in order
ContainerSlots == <<"application", "provider-choice", "provider", "submit">>

\* the current step of a wizard that has just been opened: its first step
firstStep == Str(ContainerSlots[1])

\* the labels ak-wizard-steps provides: one per step, enabled when the list the
\* container passes as .enabled has the step, active when the step is current
stepLabelsOf(en, current) ==
    [i \in 1..Len(ContainerSlots) |->
        [id |-> ContainerSlots[i],
         label |-> ContainerSlots[i],
         enabled |-> Includes(en, ContainerSlots[i]),
         active |-> (Str(ContainerSlots[i]) = current)]]

\* a navigation request makes its destination the current step when the
\* destination is the identifier of a step
navigate(current, destination) ==
    IF destination.t = "string" /\ Includes(ContainerSlots, destination.v)
    THEN destination
    ELSE current

\* the current step once ak-wizard-steps has received the events: a close event
\* is no transition
registryOn(current, events) ==
    IF events # <<>> /\ events[1].type = "WizardNavigationEvent"
    THEN navigate(current, events[1].destination)
    ELSE current

\* the one listener the container's constructor adds
containerHandles(event) == event.type = "WizardUpdateEvent"

\* the buttons getters of the steps observed in the wizard
WizardButtonLists ==
    { <<[kind |-> "next", destination |-> Str("provider")], [kind |-> "cancel"]>>,
      <<[kind |-> "back", destination |-> Str("application")],
        [kind |-> "next", disabled |-> TRUE, destination |-> Str("submit")]>> }

\* the update events the steps send in the wizard
WizardEventContents ==
    { [update |-> [app |-> [name |-> "x"]], status |-> Undefined],
      [update |-> [app |-> [name |-> "x"]],
       status |-> [enable |-> Str("provider"), disable |-> Undefined]],
      [update |-> Undefined,
       status |-> [enable |-> Undefined, disable |-> Str("provider")]],
      [update |-> Undefined,
       status |-> [enable |-> Str("provider"), disable |-> Str("provider")]] }

\* a click on a rendered sidebar entry: a disabled button element fires no click
sidebarClickResult(element) ==
    IF element.disabled THEN Return(<<>>) ELSE onSidebarNav(element)

\* the listener of the activated control has run with the given result: the
\* events it dispatched bubble to ak-wizard-steps and to the container, the
\* context is provided again and the step renders again
Delivered(control, result) ==
    /\ activated' = control
    /\ dispatched' = IF IsThrow(result) THEN <<>> ELSE result.return
    /\ thrown' = IF IsThrow(result) THEN result.throw ELSE ""
    /\ currentStep' = registryOn(currentStep, dispatched')
    /\ IF dispatched' # <<>> /\ containerHandles(dispatched'[1])
       THEN applyUpdate(dispatched'[1].content)
       ELSE UNCHANGED containerVars
    /\ stepLabels' = stepLabelsOf(enabled', currentStep')
    /\ UNCHANGED <<name, slot, canCancel, overridesMain, overridesButtons, buttons,
                   phase>>
    /\ rendered' = render(currentStep, name, slot, canCancel, buttons)'

WizardClickButton(i) ==
    /\ rendered.out = "body"
    /\ i \in 1..Len(rendered.footer)
    /\ Delivered([control |-> "footer", index |-> i], clickResult(rendered.footer[i]))

WizardClickHeaderCancel ==
    /\ rendered.out = "body"
    /\ rendered.cancelIcon
    /\ Delivered([control |-> "header"], onWizardCloseEvent)

\* the user clicks the i-th entry of the rendered sidebar
SidebarClick(i) ==
    /\ rendered.out = "body"
    /\ i \in 1..Len(rendered.sidebar)
    /\ Delivered([control |-> "sidebar", index |-> i, element |-> rendered.sidebar[i],
                  step |-> stepLabels[i]],
                 sidebarClickResult(rendered.sidebar[i]))

\* the step that is current, another one than the observed step, dispatches a
\* navigation event from one of its controls
OtherStepNavigates(destination) ==
    /\ slot # currentStep
    /\ currentStep' = navigate(currentStep, destination)
    /\ activated' = NoActivation
    /\ dispatched' = <<>>
    /\ thrown' = ""
    /\ stepLabels' = stepLabelsOf(enabled, currentStep')
    /\ UNCHANGED <<name, slot, canCancel, overridesMain, overridesButtons, buttons,
                   phase>>
    /\ UNCHANGED containerVars
    /\ rendered' = render(currentStep, name, slot, canCancel, buttons)'

\* a step dispatches an update event: the container handles it and renders
\* again, ak-wizard-steps provides the labels again, the steps render again
WizardUpdate(content) ==
    /\ applyUpdate(content)
    /\ stepLabels' = stepLabelsOf(enabled', currentStep)
    /\ activated' = NoActivation
    /\ dispatched' = <<>>
    /\ thrown' = ""
    /\ UNCHANGED <<name, slot, canCancel, overridesMain, overridesButtons, buttons,
                   phase, currentStep>>
    /\ rendered' = render(currentStep, name, slot, canCancel, buttons)'

\* the wizard once its elements are connected and have rendered for the first
\* time: the observed step is one of the container's, named by its slot
WizardInit ==
    /\ ContainerInit
    /\ slot \in {Str(ContainerSlots[i]) : i \in 1..Len(ContainerSlots)}
    /\ name = slot
    /\ phase = "connected"
    /\ canCancel \in BOOLEAN
    /\ overridesMain = TRUE
    /\ overridesButtons = TRUE
    /\ buttons \in WizardButtonLists
    /\ currentStep = firstStep
    /\ stepLabels = stepLabelsOf(enabled, currentStep)
    /\ rendered = render(currentStep, name, slot, canCancel, buttons)
    /\ activated = NoActivation
    /\ dispatched = <<>>
    /\ thrown = ""

WizardNext ==
    \/ \E content \in WizardEventContents : WizardUpdate(content)
    \/ \E i \in 1..Len(buttons) : WizardClickButton(i)
    \/ WizardClickHeaderCancel
    \/ \E i \in 1..Len(ContainerSlots) : SidebarClick(i)
    \/ \E i \in 1..Len(ContainerSlots) : OtherStepNavigates(Str(ContainerSlots[i]))

WizardSpec == WizardInit /\ [][WizardNext]_vars

(***************************************************************************)
(* Properties of the container                                             *)
(***************************************************************************)
\* a step of the behaviour in which handleUpdate handled an event
Handled == updates' # updates

\* the updates of us that carry an object
Present(us) == SelectSeq(us, LAMBDA u : u # Undefined)

\* the top-level keys that base or any update of us has
KeysOf(base, us) == (DOMAIN base) \cup UNION {DOMAIN us[i] : i \in 1..Len(us)}

\* the value of the last update of us that has key k, base's value if none has
LastWritten(base, us, k) ==
    LET having == {i \in 1..Len(us) : k \in DOMAIN us[i]}
    IN IF having = {} THEN base[k]
       ELSE us[CHOOSE i \in having : \A j \in having : j <= i][k]

\* the shallow merge of base with us, in order: the last writer of a top-level key wins
ShallowMergeAll(base, us) == [k \in KeysOf(base, us) |-> LastWritten(base, us, k)]

RECURSIVE DeepMergeAll(_, _)
DeepMergeAll(base, us) ==
    IF us = <<>> THEN base ELSE DeepMergeAll(DeepMerge(base, Head(us)), Tail(us))

\* C1 (as stated): after any sequence of update events the wizard state is the
\* deep merge of all the partial updates, in order, into the fresh state.
C1_DeepMergeOfUpdates == wizard = DeepMergeAll(freshWizardState, Present(updates))

\* C1 (amended): after any sequence of update events the wizard state is the
\* shallow merge of all the partial updates, in order, into the fresh state: each
\* top-level key holds the value of the last update that carried it, whole.
C1_ShallowMergeOfUpdates == wizard = ShallowMergeAll(freshWizardState, Present(updates))

\* three updates were merged, two of them writing different app objects
C1_Witness ==
    /\ Len(Present(updates)) = 3
    /\ \E i, j \in 1..3 :
          /\ i < j
          /\ "app" \in DOMAIN Present(updates)[i]
          /\ "app" \in DOMAIN Present(updates)[j]
          /\ Present(updates)[i].app # Present(updates)[j].app
    /\ wizard.providerModel = "saml"

\* C2: handleUpdate merges shallowly: every top-level key of the update takes the
\* update's value whole, every other key keeps its value, and no key is lost.
C2_ShallowMerge ==
    [][(Handled /\ ev'.update # Undefined) =>
         /\ DOMAIN wizard' = (DOMAIN wizard) \cup (DOMAIN ev'.update)
         /\ \A k \in DOMAIN ev'.update : wizard'[k] = ev'.update[k]
         /\ \A k \in (DOMAIN wizard) \ (DOMAIN ev'.update) : wizard'[k] = wizard[k]]_vars

\* {app: {name: "x"}} then {app: {slug: "y"}} left app = {slug: "y"}
C2_Witness ==
    /\ Len(updates) >= 2
    /\ updates[Len(updates) - 1] = [app |-> [name |-> "x"]]
    /\ updates[Len(updates)] = [app |-> [slug |-> "y"]]
    /\ wizard.app = [slug |-> "y"]
    /\ wizard.providerModel = freshWizardState.providerModel

\* C3: a status sets enabled to (enabled minus status.disable) union status.enable,
\* each of enable and disable absent, one identifier or a list.
C3_EnabledUpdate ==
    [][(Handled /\ ev'.status # Undefined) =>
         Range(enabled') =
            (Range(enabled) \ IdsOf(ev'.status.disable)) \cup IdsOf(ev'.status.enable)]_vars

\* a status with a single identifier to enable and a list to disable has acted
C3_Witness ==
    /\ updates # <<>>
    /\ ev.status # Undefined
    /\ ev.status.enable = Str("provider")
    /\ ev.status.disable = Arr(<<"application">>)
    /\ enabled = <<"provider">>

\* C4: an identifier in both enable and disable of one status is enabled afterwards.
C4_EnableWins ==
    [][(Handled /\ ev'.status # Undefined) =>
         \A s \in IdsOf(ev'.status.enable) \cap IdsOf(ev'.status.disable) :
            Includes(enabled', s)]_vars

\* {enable: ["provider"]} then {disable: ["provider"], enable: ["provider"]}
C4_Witness ==
    /\ Len(updates) >= 2
    /\ ev.status # Undefined
    /\ ev.status.enable = Arr(<<"provider">>)
    /\ ev.status.disable = Arr(<<"provider">>)
    /\ enabled = <<"application", "provider">>

\* the list has no member twice
NoDuplicates(s) == \A i, j \in 1..Len(s) : s[i] = s[j] => i = j

\* C5: a status that enables only enabled steps and disables only steps that are
\* not enabled leaves the enabled set as it was; the same status handled twice in
\* a row leaves the set it left the first time; the list never has a duplicate.
C5_Idempotent ==
    [][(Handled /\ ev'.status # Undefined) =>
         /\ NoDuplicates(enabled')
         /\ (/\ IdsOf(ev'.status.enable) \subseteq Range(enabled)
             /\ IdsOf(ev'.status.disable) \cap Range(enabled) = {})
            => enabled' = enabled
         /\ (updates # <<>> /\ ev.status = ev'.status)
            => Range(enabled') = Range(enabled)]_vars

\* a status that enabled one step and disabled another was handled, and handling
\* the same status once more is possible and leaves the enabled list as it is
C5_Witness ==
    /\ updates # <<>>
    /\ ev.status # Undefined
    /\ ev.status.enable = Arr(<<"provider">>)
    /\ ev.status.disable = Str("application")
    /\ enabled = <<"provider">>
    /\ ENABLED (handleUpdate([update |-> Undefined, status |-> ev.status])
                /\ enabled' = enabled)

(***************************************************************************)
(* Properties of a step                                                    *)
(***************************************************************************)
\* button.disabled is falsy: absent or false
DisabledFalsy(button) == "disabled" \notin DOMAIN button \/ button.disabled = FALSE

\* the footer was rendered, control i from button i of the step
FooterRendered == rendered.out = "body" /\ Len(rendered.footer) = Len(buttons)

\* the user activated footer control i after the last render
Activated(i) == activated = [control |-> "footer", index |-> i]

\* C6: a button with disabled: true is rendered through the disabled path whatever
\* its kind and destination, with no click listener; activating it dispatches nothing.
C6_DisabledAlwaysDisabled ==
    /\ \A i \in 1..Len(buttons) :
          ("disabled" \in DOMAIN buttons[i] /\ buttons[i].disabled = TRUE) =>
             /\ renderButton(buttons[i]).path = "disabled"
             /\ renderButton(buttons[i]).onClick = "none"
    /\ rendered.out = "body" =>
          /\ Len(rendered.footer) = Len(buttons)
          /\ \A i \in 1..Len(buttons) :
                ("disabled" \in DOMAIN buttons[i] /\ buttons[i].disabled = TRUE) =>
                   /\ rendered.footer[i].path = "disabled"
                   /\ rendered.footer[i].disabled
                   /\ rendered.footer[i].onClick = "none"
                   /\ Activated(i) => (dispatched = <<>> /\ thrown = "")

\* a disabled cancel button that carries a destination was rendered and activated
C6_Witness ==
    /\ FooterRendered
    /\ Len(buttons) >= 1
    /\ buttons[1] = [kind |-> "cancel", disabled |-> TRUE, destination |-> Str("provider")]
    /\ rendered.footer[1].path = "disabled"
    /\ Activated(1)
    /\ dispatched = <<>>

\* C7: a close or cancel button whose disabled is falsy is rendered as a close
\* control, with or without a destination; activating it dispatches one
\* WizardCloseEvent and no WizardNavigationEvent.
C7_CloseKindAlwaysClose ==
    /\ \A i \in 1..Len(buttons) :
          (buttons[i].kind \in {"close", "cancel"} /\ DisabledFalsy(buttons[i])) =>
             renderButton(buttons[i]).path = "close"
    /\ rendered.out = "body" =>
          \A i \in 1..Len(buttons) :
             (buttons[i].kind \in {"close", "cancel"} /\ DisabledFalsy(buttons[i])) =>
                /\ rendered.footer[i].path = "close"
                /\ rendered.footer[i].onClick = "onWizardCloseEvent"
                /\ Activated(i) => (dispatched = <<WizardCloseEvent>> /\ thrown = "")

\* a cancel button with disabled: false and a destination was rendered and activated
C7_Witness ==
    /\ FooterRendered
    /\ Len(buttons) >= 1
    /\ buttons[1] = [kind |-> "cancel", disabled |-> FALSE, destination |-> Str("provider")]
    /\ rendered.footer[1].path = "close"
    /\ Activated(1)
    /\ dispatched = <<WizardCloseEvent>>

\* the button carries a non-empty destination string
HasDestination(button) ==
    /\ "destination" \in DOMAIN button
    /\ button.destination.t = "string"
    /\ button.destination.v # ""

\* C8: a next or back button with a non-empty destination that is not disabled is
\* rendered as navigable, and activating it dispatches exactly one
\* WizardNavigationEvent, carrying the button's destination.
C8_NavigableNavigates ==
    rendered.out = "body" =>
       \A i \in 1..Len(buttons) :
          (/\ HasDestination(buttons[i])
           /\ DisabledFalsy(buttons[i])
           /\ buttons[i].kind \notin {"close", "cancel"}) =>
             /\ rendered.footer[i].path = "navigable"
             /\ rendered.footer[i].onClick = "onWizardNavigationEvent"
             /\ Activated(i) =>
                   /\ thrown = ""
                   /\ Len(dispatched) = 1
                   /\ dispatched[1].type = "WizardNavigationEvent"
                   /\ dispatched[1].destination = buttons[i].destination

\* a next button to "provider" was rendered and activated
C8_Witness ==
    /\ FooterRendered
    /\ Len(buttons) >= 1
    /\ buttons[1] = [kind |-> "next", destination |-> Str("provider")]
    /\ rendered.footer[1].path = "navigable"
    /\ Activated(1)
    /\ dispatched = <<WizardNavigationEvent(Str("provider"))>>

\* C9: renderButton takes the navigable path only for a button with a non-empty
\* destination string, and no activation of a rendered button raises the
\* 'Non-navigable button sent to handleNavigationEvent' error.
C9_NavigablePathGated ==
    /\ rendered.out = "body" =>
          \A i \in 1..Len(rendered.footer) :
             (Activated(i) /\ rendered.footer[i].path = "navigable") =>
                /\ HasDestination(rendered.footer[i].button)
                /\ dispatched = <<WizardNavigationEvent(rendered.footer[i].button.destination)>>
    /\ thrown # NavigationError

\* C10 (as stated): a connected step whose name differs from the context's current
\* step renders nothing, and one whose name is the current step renders its body.
C10_GateByName ==
    (phase = "connected" /\ rendered # Unrendered) =>
       /\ name # currentStep => rendered = Nothing
       /\ name = currentStep => rendered # Nothing

\* every button of the step matches a pattern of renderButton
AllButtonsRender == \A i \in 1..Len(buttons) : ~IsThrow(renderButton(buttons[i]))

\* C10 (amended): a step whose slot attribute differs from the context's current
\* step renders nothing; one whose slot attribute is the current step evaluates
\* its body, which is returned unless renderMain or renderButton raises. For a
\* connected step whose name is its slot attribute this is the gate by name.
C10_GateBySlot ==
    rendered # Unrendered =>
       /\ slot # currentStep => rendered = Nothing
       /\ slot = currentStep =>
             /\ rendered.out \in {"body", "error"}
             /\ rendered.out = "body" <=> (overridesMain /\ AllButtonsRender)
       /\ (phase = "connected" /\ name = slot) =>
             /\ name # currentStep => rendered = Nothing
             /\ name = currentStep => rendered # Nothing

\* a step named otherwise than its slot rendered its body for its slot
C10_Witness ==
    /\ phase = "connected"
    /\ name = Str("provider")
    /\ slot = Str("application")
    /\ currentStep = Str("application")
    /\ rendered.out = "body"

(***************************************************************************)
(* Properties of the sidebar                                               *)
(***************************************************************************)
\* the user clicked a sidebar entry after the last update event
SidebarActivated == activated.control = "sidebar"

\* C11: a click on the sidebar entry of an enabled step dispatches exactly one
\* WizardNavigationEvent whose destination is the id of the clicked step label,
\* wherever the label stands in the list.
C11_SidebarNavigatesToStep ==
    (SidebarActivated /\ activated.step.enabled) =>
       dispatched = <<WizardNavigationEvent(Str(activated.step.id))>>

(***************************************************************************)
(* Properties of the connection of a step                                  *)
(***************************************************************************)
\* the value is a non-empty string
NonEmptyString(v) == v.t = "string" /\ v.v # ""

\* a step of the behaviour in which connectedCallback ran
Connects == phase = "constructed" /\ phase' # "constructed"

\* C12: connectedCallback leaves a name that is set as it is; gives a step
\* without a name its slot attribute as name; and raises 'Steps must have a
\* unique slot attribute.' for a step with neither a name nor a non-empty slot
\* attribute. Every connected step has a non-empty name.
C12_NameFromSlot ==
    /\ [](phase = "connected" => NonEmptyString(name))
    /\ [][Connects =>
            /\ NonEmptyString(name) =>
                  (phase' = "connected" /\ name' = name /\ thrown' = "")
            /\ (~NonEmptyString(name) /\ NonEmptyString(slot)) =>
                  (phase' = "connected" /\ name' = slot /\ thrown' = "")
            /\ (~NonEmptyString(name) /\ ~NonEmptyString(slot)) =>
                  (phase' = "failed" /\ thrown' = SlotError /\ name' = name)]_vars

\* a step written with an empty name and no slot attribute failed to connect
C12_Witness ==
    /\ phase = "failed"
    /\ thrown = SlotError
    /\ name = Str("")
    /\ slot = Null

(***************************************************************************)
(* Properties of the wizard                                                *)
(***************************************************************************)
\* the i-th step of the container's template passes the gate of render()
StepRenders(i) ==
    render(currentStep, Str(ContainerSlots[i]), Str(ContainerSlots[i]),
           canCancel, buttons) # Nothing

C14_MissingOverrideFails ==
    /\ ~overridesMain => renderMain = Throw(RenderMainError)
    /\ ~overridesButtons => renderButtons = Throw(RenderMainError)
    /\ rendered # Unrendered =>
          /\ (slot = currentStep /\ (~overridesMain \/ ~overridesButtons)) =>
                rendered = [out |-> "error", error |-> RenderMainError]
          /\ slot # currentStep => rendered = Nothing

(***************************************************************************)
(* Frame properties of the container                                       *)
(***************************************************************************)
\* C15: the enabled set starts as {"application"}; an update event without a
\* status leaves it as it is and only an event with a status changes it; an
\* update event without an update leaves the wizard state as it is; and every
\* member of the enabled set is "application" or was carried by the enable
\* field of a status handled before.
C15_EnabledFrame ==
    /\ enabled = <<"application">>
    /\ [](Range(enabled) \subseteq {"application"} \cup everEnabled)
    /\ [][(Handled /\ ev'.status = Undefined) => enabled' = enabled]_vars
    /\ [][(Handled /\ ev'.update = Undefined) => wizard' = wizard]_vars
    /\ [][enabled' # enabled => (Handled /\ ev'.status # Undefined)]_vars

\* after a status enabled the provider step, an event with an update and no
\* status was handled
C15_Witness ==
    /\ Len(updates) >= 2
    /\ ev.status = Undefined
    /\ ev.update = [app |-> [slug |-> "y"]]
    /\ everEnabled = {"provider"}
    /\ enabled = <<"application", "provider">>

(***************************************************************************)
(* Properties of the button dispatch table                                 *)
(***************************************************************************)
\* a next or back button that is not disabled and carries no destination string
Unmatched(button) ==
    /\ button.kind \in {"next", "back"}
    /\ DisabledFalsy(button)
    /\ ("destination" \notin DOMAIN button \/ button.destination.t # "string")

\* the template the order disabled, close or cancel kind, destination selects
PathInOrder(button) ==
    IF "disabled" \in DOMAIN button /\ button.disabled = TRUE THEN "disabled"
    ELSE IF button.kind \in {"close", "cancel"} THEN "close"
    ELSE "navigable"

\* C16: renderButton tries disabled, then the close or cancel kind, then the
\* destination; a next or back button that is not disabled and has no
\* destination raises 'Button type is not close, disabled, or navigable?'. The
\* render of the current step then ends with that error, leaves no control to
\* activate, and no event is dispatched.
C16_UnmatchedButtonRaises ==
    /\ \A i \in 1..Len(buttons) :
          IF Unmatched(buttons[i])
          THEN renderButton(buttons[i]) = Throw(ButtonError)
          ELSE /\ ~IsThrow(renderButton(buttons[i]))
               /\ renderButton(buttons[i]).path = PathInOrder(buttons[i])
    /\ (/\ rendered # Unrendered
        /\ slot = currentStep
        /\ overridesMain
        /\ \E i \in 1..Len(buttons) : Unmatched(buttons[i])) =>
          /\ rendered = [out |-> "error", error |-> ButtonError]
          /\ activated = NoActivation
          /\ dispatched = <<>>

\* the current step's render raised for a next button without a destination
C16_Witness ==
    /\ buttons = <<[kind |-> "next"]>>
    /\ slot = Str("application")
    /\ currentStep = Str("application")
    /\ rendered = [out |-> "error", error |-> ButtonError]
    /\ dispatched = <<>>

\* C17: the sidebar has one entry per step label, disabled exactly when the
\* label is not enabled and marked current exactly when the label is active;
\* a click on the entry of a step that is not enabled dispatches no event.
C17_SidebarDisabledAndCurrent ==
    /\ rendered.out = "body" =>
          /\ Len(rendered.sidebar) = Len(stepLabels)
          /\ \A i \in 1..Len(stepLabels) :
                /\ rendered.sidebar[i].disabled <=> ~stepLabels[i].enabled
                /\ "pf-m-current" \in rendered.sidebar[i].classes <=> stepLabels[i].active
    /\ (SidebarActivated /\ ~activated.step.enabled) =>
          /\ activated.element.disabled
          /\ dispatched = <<>>

\* with the provider step enabled, the entry of the submit step, which is not,
\* was clicked
C17_Witness ==
    /\ rendered.out = "body"
    /\ stepLabels[1].active
    /\ stepLabels[3].enabled
    /\ ~rendered.sidebar[3].disabled
    /\ SidebarActivated
    /\ activated.step.id = "submit"
    /\ ~activated.step.enabled
    /\ dispatched = <<>>

\* a step of the behaviour in which the user activated a control of the step
Activation == activated'.control # "none"

\* the events are all of the given type
AllOfType(events, type) == \A i \in 1..Len(events) : events[i].type = type

\* C18: activating a footer button, the header cancel icon or a sidebar entry
\* dispatches WizardNavigationEvents or WizardCloseEvents only and leaves the
\* container's wizard state and enabled set as they are: a close control
\* dispatches one WizardCloseEvent, a navigable button and a sidebar entry
\* dispatch WizardNavigationEvents. The wizard state and the enabled set change
\* only when the container handles a WizardUpdateEvent, and a close event leaves
\* the current step as it is.
C18_EventsLeaveContainer ==
    /\ [][Activation =>
            /\ wizard' = wizard
            /\ enabled' = enabled
            /\ updates' = updates
            /\ activated'.control = "header" => dispatched' = <<WizardCloseEvent>>
            /\ activated'.control = "sidebar" =>
                  AllOfType(dispatched', "WizardNavigationEvent")
            /\ activated'.control = "footer" =>
                  IF rendered.footer[activated'.index].path = "close"
                  THEN dispatched' = <<WizardCloseEvent>>
                  ELSE AllOfType(dispatched', "WizardNavigationEvent")
            /\ (dispatched' # <<>> /\ AllOfType(dispatched', "WizardCloseEvent")) =>
                  currentStep' = currentStep]_vars
    /\ [][(wizard' # wizard \/ enabled' # enabled) => (Handled /\ ~Activation)]_vars

\* after an update event changed the wizard state and the enabled set, the
\* header cancel icon was activated
C18_Witness ==
    /\ wizard.app = [name |-> "x"]
    /\ enabled = <<"application", "provider">>
    /\ activated = [control |-> "header"]
    /\ dispatched = <<WizardCloseEvent>>
    /\ currentStep = firstStep

(***************************************************************************)
(* Handling of one update event                                            *)
(***************************************************************************)
\* the wizard state after the one update of the event is merged into w
MergedOnce(w, update) ==
    IF update = Undefined THEN w ELSE ShallowMergeAll(w, <<update>>)

\* the members of the enabled set after the one status of the event
EnabledOnce(en, status) ==
    IF status = Undefined THEN Range(en)
    ELSE (Range(en) \ IdsOf(status.disable)) \cup IdsOf(status.enable)

\* C19: every step that changes the container handles exactly one update event
\* and applies it once and whole: the event is recorded once, the wizard state
\* is the old state merged once with the event's update, and the enabled set is
\* the old set changed once by the event's status, both in the same step. The
\* handler stops the propagation of the event, so no update event ever goes on
\* to a listener above the container.
C19_AppliedOnceAndStopped ==
    /\ [](propagated = 0)
    /\ [][(wizard' # wizard \/ enabled' # enabled \/ ev' # ev) => Handled]_vars
    /\ [][Handled =>
            /\ updates' = Append(updates, ev'.update)
            /\ wizard' = MergedOnce(wizard, ev'.update)
            /\ Range(enabled') = EnabledOnce(enabled, ev'.status)
            /\ propagated' = propagated]_vars

\* three events were handled, the last with both an update and a status, and
\* none went on above the container
C19_Witness ==
    /\ Len(updates) = 3
    /\ ev.update = [app |-> [slug |-> "y"]]
    /\ ev.status = [enable |-> Str("provider"), disable |-> Undefined]
    /\ wizard.app = [slug |-> "y"]
    /\ enabled = <<"application", "provider">>
    /\ propagated = 0

(***************************************************************************)
(* The top-level keys of the wizard state                                  *)
(***************************************************************************)
\* the keys of the state a wizard starts with
FreshKeys == {"providerModel", "currentBinding", "app", "provider", "errors", "bindings"}

\* C20: the wizard state starts as {providerModel: "", currentBinding: -1,
\* app: {}, provider: {}, errors: {}, bindings: []} and has these six keys in
\* every reachable state: no step removes a top-level key, and a key is added
\* only by handling an update that carries it.
C20_KeysKept ==
    /\ wizard = [providerModel |-> "", currentBinding |-> -1, app |-> <<>>,
                 provider |-> <<>>, errors |-> <<>>, bindings |-> <<>>]
    /\ [](FreshKeys \subseteq DOMAIN wizard)
    /\ [][/\ DOMAIN wizard \subseteq DOMAIN wizard'
          /\ (DOMAIN wizard' # DOMAIN wizard) =>
                /\ Handled
                /\ ev'.update # Undefined
                /\ (DOMAIN wizard') \ (DOMAIN wizard) \subseteq DOMAIN ev'.update]_vars

\* an update wrote app, another added the key proxyMode, and the six keys are there
C20_Witness ==
    /\ Len(updates) >= 2
    /\ DOMAIN wizard = FreshKeys \cup {"proxyMode"}
    /\ wizard.proxyMode = "proxy"
    /\ wizard.app = [name |-> "x"]
    /\ wizard.bindings = <<>>
    /\ wizard.currentBinding = -1

=============================================================================
